---- MODULE Spec2Model ----
(***************************************************************************)
(* Real-time connection manager of the festival payment backend:          *)
(* SocketController (src/src/controllers/socket.controller.js) on top of  *)
(* Socket.IO.  One connection callback runs at a time (Node.js event      *)
(* loop); a callback gives up control only at an `await`.                 *)
(***************************************************************************)
EXTENDS Integers, Sequences, FiniteSets, TLC

\* ------------------------------------------------------------------ bounds
MaxConns == 2
MaxEvents == 2
MaxSessions == 1
MaxTime == 4
MaxBudget == 2
MaxRateEvents == 4
MaxRequests == 2
MaxBalance == 2
MaxCalls == 2

\* --------------------------------------------------------------- universe
None == "none"

\* Map.get on a missing key (undefined): no socket id.
NoConn == 0

Conns == 1..MaxConns

\* User Directory (userService.getUserById): the stored users.
Users == {"c1", "c2", "v1", "a1"}

UserType(u) ==
    CASE u = "c1" -> "customer"
      [] u = "c2" -> "customer"
      [] u = "v1" -> "vendor"
      [] u = "a1" -> "admin"

\* adminService.suspendUser marks an account; c2 is a suspended customer.
UserStatus(u) == IF u = "c2" THEN "suspended" ELSE "active"

\* Orders of the Order Directory with their customer and vendor.
Orders == {"o1", "o2"}
OrderCustomer(o) == IF o = "o1" THEN "c1" ELSE "c2"
OrderVendor(o) == IF o = "o1" THEN "v1" ELSE "v9"

\* socket.handshake.auth = { token, userId }.  A token is absent ("none"),
\* fails jwt.verify ("bad"), or verifies and carries a subject claim; the
\* subject "ghost" is a user that no longer exists.
Handshakes ==
    { [token |-> "none", userId |-> None],
      [token |-> "bad", userId |-> None],
      [token |-> "ghost", userId |-> None],
      [token |-> "c1", userId |-> None],
      [token |-> "c1", userId |-> "c1"],
      [token |-> "c1", userId |-> "v1"],
      [token |-> "c2", userId |-> None],
      [token |-> "v1", userId |-> None],
      [token |-> "a1", userId |-> None] }

NoHandshake == [token |-> "none", userId |-> None]

\* jwt.verify(token, secret): TRUE when it returns, FALSE when it throws.
JwtVerifies(token) == token \notin {"none", "bad"}

\* userService.getUserById(decoded.sub): the user, or None (null).
getUserById(sub) == IF sub \in Users THEN sub ELSE None

UserRoom(u) == <<"user", u>>
VendorDashboardRoom(u) == <<"vendor-dashboard", u>>
OrderRoom(o) == <<"order", o>>

VARIABLES
    handshake,          \* socket.handshake.auth of each connection
    pc,                 \* where the connection's handleConnection stands
    connected,          \* socket.connected
    sockUserId,         \* socket.userId
    sockUserType,       \* socket.userType
    connectedUsers,     \* this.connectedUsers : userId -> socket.id
    rooms,              \* adapter room membership of each socket
    received,           \* events written to the connection while it was open
    hasDisconnectHandler, \* socket.on('disconnect', ...) is attached
    existingSocket,     \* local `existingSocket` of a running handleConnection
    pendingOrderJoin,   \* join-order-room handlers suspended in verifyOrderAccess
    running,            \* the callback that holds the event loop, or None
    eventCount,         \* number of inbound client events so far
    lastOp,             \* the operation the last step processed
    lastEmits,          \* <<connection, event>> pairs written by the last step
    fired,              \* connections whose 'disconnect' listener ran in the last step
    server,             \* the HTTP server: listening, closing, or the process exited
    isInitialized,      \* SocketService.isInitialized
    lastRoomEmits,      \* <<room, event>> pairs of io.to(room).emit in the last step
    lastResult,         \* how the last service or middleware call ended
    now,                \* Date.now(), in units of MsPerUnit milliseconds
    nextClear,          \* when the limiter's setInterval callback is due
    userEventCounts,    \* the limiter's Map: user, minute bucket -> count
    accepted,           \* events the limiter let through, per user and bucket
    balance,            \* User.balance as stored in the database
    reqPc,              \* where each createOrder request stands
    reqAmount,          \* order.totalAmount of the request's order
    customerDoc,        \* balance of the request's loaded customer document
    vendorDoc,          \* balance of the request's loaded vendor document
    paidOrders,         \* requests whose order is stored with paymentStatus 'paid'
    deducted,           \* sum of the amounts deductFunds has saved
    pendingRegistrations, \* auth.service Map: verification token -> user data
    processingTokens,   \* auth.service Set of tokens being processed
    issuedTokens,       \* verification tokens handed out so far
    users,              \* users created by completeRegistration
    usedBy,             \* VendorCode.usedBy of each vendor code
    callPc,             \* where each completeRegistration call stands
    callToken,          \* the verification token of each call
    callData,           \* pendingData as read by each call
    preRegistering      \* sendPreRegistrationEmail requests past the e-mail check

vars ==
    <<handshake, pc, connected, sockUserId, sockUserType, connectedUsers,
      rooms, received, hasDisconnectHandler, existingSocket, pendingOrderJoin,
      running, eventCount, lastOp, lastEmits, fired, server, isInitialized,
      lastRoomEmits, lastResult, now, nextClear, userEventCounts, accepted,
      balance, reqPc, reqAmount, customerDoc, vendorDoc, paidOrders, deducted,
      pendingRegistrations, processingTokens, issuedTokens, users, usedBy,
      callPc, callToken, callData, preRegistering>>

\* The real-time side: everything the socket controller, the emitter and the
\* limiter read or write.
realtimeVars ==
    <<handshake, pc, connected, sockUserId, sockUserType, connectedUsers,
      rooms, received, hasDisconnectHandler, existingSocket, pendingOrderJoin,
      running, eventCount, lastOp, lastEmits, fired, server, isInitialized,
      lastRoomEmits, lastResult, now, nextClear, userEventCounts, accepted>>

\* The state of the order-creation endpoint.
orderVars ==
    <<balance, reqPc, reqAmount, customerDoc, vendorDoc, paidOrders, deducted>>

\* The state of the registration service.
authVars ==
    <<pendingRegistrations, processingTokens, issuedTokens, users, usedBy,
      callPc, callToken, callData, preRegistering>>

\* The concurrent createOrder requests and completeRegistration calls.
Requests == 1..MaxRequests
Calls == 1..MaxCalls

\* The customer and the vendor of the orders, and what the customer owns
\* before the first order.
Customer == "c1"
Vendor == "v1"
InitialBalance(u) == IF u = Customer THEN MaxBalance ELSE 0

\* Verification tokens (crypto.randomBytes) with the e-mail address each was
\* issued for, and the vendor registration codes of the database.
Tokens == {"t1", "t2"}
Emails == {"e1", "e2"}
VendorCodes == {"VC1"}

\* pendingRegistrations.get on a missing key.
NoPending == [email |-> None, vendorCode |-> None, type |-> None]

NoOp == [op |-> "init", conn |-> NoConn, arg |-> None]

\* The period of the limiter's setInterval and the width of its buckets, in
\* milliseconds; time advances in half periods.
IntervalMs == 60000
Tick == IntervalMs \div 2
Times == {k * Tick : k \in 0..MaxTime}
Buckets == 0..((MaxTime * Tick) \div IntervalMs)

\* The users whose events reach the limiter.
RateUsers == {"c1", "v1"}

\* setInterval has not been called yet.
NoTimer == -1

\* A callback slot that is no connection: the process has exited.
Exited == -1

\* Everything but SocketService.isInitialized, as it is when the process starts.
InitBase ==
    /\ server = "listening"
    /\ lastRoomEmits = {}
    /\ lastResult = None
    /\ now = 0
    /\ nextClear = NoTimer
    /\ userEventCounts = [u \in RateUsers |-> [b \in Buckets |-> 0]]
    /\ accepted = [u \in RateUsers |-> [b \in Buckets |-> 0]]
    /\ balance = [u \in {Customer, Vendor} |-> InitialBalance(u)]
    /\ reqPc = [r \in Requests |-> "idle"]
    /\ reqAmount = [r \in Requests |-> 0]
    /\ customerDoc = [r \in Requests |-> 0]
    /\ vendorDoc = [r \in Requests |-> 0]
    /\ paidOrders = {}
    /\ deducted = 0
    /\ pendingRegistrations = [t \in Tokens |-> NoPending]
    /\ processingTokens = {}
    /\ issuedTokens = {}
    /\ users = {}
    /\ usedBy = [code \in VendorCodes |-> None]
    /\ callPc = [k \in Calls |-> "idle"]
    /\ callToken = [k \in Calls |-> None]
    /\ callData = [k \in Calls |-> NoPending]
    /\ preRegistering = [t \in Tokens |-> NoPending]
    /\ handshake = [c \in Conns |-> NoHandshake]
    /\ pc = [c \in Conns |-> "new"]
    /\ connected = [c \in Conns |-> FALSE]
    /\ sockUserId = [c \in Conns |-> None]
    /\ sockUserType = [c \in Conns |-> None]
    /\ connectedUsers = [u \in Users |-> NoConn]
    /\ rooms = [c \in Conns |-> {}]
    /\ received = [c \in Conns |-> {}]
    /\ hasDisconnectHandler = [c \in Conns |-> FALSE]
    /\ existingSocket = [c \in Conns |-> NoConn]
    /\ pendingOrderJoin = [c \in Conns |-> {}]
    /\ running = NoConn
    /\ eventCount = 0
    /\ lastOp = NoOp
    /\ lastEmits = {}
    /\ fired = {}

\* index.js line 63 has run: socketService.initialize(io) built the controller
\* and attached the 'connection' listener.
Init == InitBase /\ isInitialized = TRUE

\* ----------------------------------------------------------------- helpers

\* A step of the controller's connection or room handling: it calls no
\* service emitter and no middleware, and no time passes.
ControllerStep ==
    /\ lastRoomEmits' = {}
    /\ lastResult' = None
    /\ UNCHANGED <<server, isInitialized, now, nextClear, userEventCounts,
                   accepted>>
    /\ UNCHANGED <<orderVars, authVars>>

\* socket.emit(ev): the packet is written only while the socket is connected.
Deliver(conn, rcv, emits) ==
    [c \in Conns |->
        rcv[c] \cup {e[2] : e \in {x \in emits : x[1] = c /\ conn[c]}}]

Delivered(conn, emits) == {e \in emits : conn[e[1]]}

\* handleDisconnection(socket): this.connectedUsers.delete(socket.userId)
handleDisconnection(reg, uid) ==
    [u \in Users |-> IF u = uid THEN NoConn ELSE reg[u]]

\* The registry after socket `c` closed: its 'disconnect' listener, if one is
\* attached, runs synchronously inside Socket._onclose.
RegistryAfterClose(reg, c) ==
    IF hasDisconnectHandler[c] THEN handleDisconnection(reg, sockUserId[c])
    ELSE reg

Op(name, c, a) == [op |-> name, conn |-> c, arg |-> a]

\* ------------------------------------------------- connection: lines 20-98

\* Variant: the catch block reports the error but leaves the socket open.
ConnectedAfterReject_Stays(c) == TRUE

\* setupSocketHandlers catch block (lines 24-28): socket.emit('error') and
\* socket.disconnect(); the value is socket.connected afterwards.
ConnectedAfterReject(c) == FALSE

\* The catch block of the 'connection' listener, for a handleConnection that
\* threw before it registered anything (lines 39-49).
Reject(c, wasConnected) ==
    /\ pc' = [pc EXCEPT ![c] = "rejected"]
    /\ connected' = [connected EXCEPT ![c] = wasConnected /\ ConnectedAfterReject(c)]
    /\ lastEmits' = IF wasConnected THEN {<<c, "error">>} ELSE {}
    /\ received' = [received EXCEPT ![c] =
                        IF wasConnected THEN @ \cup {"error"} ELSE @]
    /\ rooms' = [rooms EXCEPT ![c] = IF ConnectedAfterReject(c) THEN @ ELSE {}]
    /\ fired' = {}
    /\ UNCHANGED <<sockUserId, sockUserType, connectedUsers,
                   hasDisconnectHandler, existingSocket, pendingOrderJoin,
                   running, eventCount>>

\* io.on('connection') -> handleConnection lines 35-45: runs until the await
\* of the user lookup, or throws on a missing / invalid token.
Connection(c, h) ==
    /\ ControllerStep
    /\ running = NoConn
    /\ isInitialized
    /\ server = "listening"
    /\ pc[c] = "new"
    /\ \A d \in Conns : d < c => pc[d] # "new"
    /\ handshake' = [handshake EXCEPT ![c] = h]
    /\ lastOp' = Op("connection", c, h.token)
    /\ IF JwtVerifies(h.token)
       THEN /\ pc' = [pc EXCEPT ![c] = "lookup"]
            /\ connected' = [connected EXCEPT ![c] = TRUE]
            /\ lastEmits' = {}
            /\ fired' = {}
            /\ UNCHANGED <<sockUserId, sockUserType, connectedUsers, rooms,
                           received, hasDisconnectHandler, existingSocket,
                           pendingOrderJoin, running, eventCount>>
       ELSE Reject(c, TRUE)

\* Line 45 resumes with the looked-up user; lines 47-49 throw when it is null.
\* Otherwise the callback goes on synchronously to line 52.
LookupReturn(c) ==
    /\ ControllerStep
    /\ running = NoConn
    /\ pc[c] = "lookup"
    /\ lastOp' = Op("lookup-return", c, handshake[c].token)
    /\ UNCHANGED handshake
    /\ IF getUserById(handshake[c].token) = None
       THEN Reject(c, connected[c])
       ELSE /\ pc' = [pc EXCEPT ![c] = "check"]
            /\ running' = c
            /\ lastEmits' = {}
            /\ fired' = {}
            /\ UNCHANGED <<connected, sockUserId, sockUserType, connectedUsers,
                           rooms, received, hasDisconnectHandler,
                           existingSocket, pendingOrderJoin, eventCount>>

\* Variant: the lookup of the registered socket finds nothing.
ExistingLive_Skip(c, u) == NoConn

\* Lines 52-55: the socket to evict, or NoConn.  io.sockets.sockets holds
\* exactly the connected sockets of the namespace.
ExistingLive(c, u) ==
    LET existingSocketId == connectedUsers[u] IN
    IF existingSocketId # NoConn /\ existingSocketId # c
          /\ connected[existingSocketId]
    THEN existingSocketId
    ELSE NoConn

\* Variant: the old socket is notified but not disconnected.
ConnectedAfterEvict_Stays(old) == TRUE

\* Line 63: existingSocket.disconnect(true); the value is its socket.connected
\* afterwards.
ConnectedAfterEvict(old) == FALSE

\* Variant: an await between the eviction and the registration.
RunningAfterEviction_Await(c) == NoConn

\* There is no await between line 66 and line 69: the callback keeps the
\* event loop after the eviction.
RunningAfterEviction(c) == c

\* Lines 52-66: notify and disconnect the connection registered for the user.
EvictExisting(c) ==
    /\ ControllerStep
    /\ running = c
    /\ pc[c] = "check"
    /\ LET u == getUserById(handshake[c].token)
           old == ExistingLive(c, u)
           closes == old # NoConn /\ ~ConnectedAfterEvict(old)
       IN  /\ existingSocket' = [existingSocket EXCEPT ![c] = old]
           /\ lastEmits' = IF old # NoConn THEN {<<old, "session-replaced">>} ELSE {}
           /\ received' = IF old # NoConn
                          THEN [received EXCEPT ![old] = @ \cup {"session-replaced"}]
                          ELSE received
           /\ connected' = IF closes THEN [connected EXCEPT ![old] = FALSE]
                           ELSE connected
           /\ rooms' = IF closes THEN [rooms EXCEPT ![old] = {}] ELSE rooms
           /\ connectedUsers' = IF closes THEN RegistryAfterClose(connectedUsers, old)
                                ELSE connectedUsers
           /\ fired' = IF closes /\ hasDisconnectHandler[old] THEN {old} ELSE {}
    /\ pc' = [pc EXCEPT ![c] = "register"]
    /\ running' = RunningAfterEviction(c)
    /\ lastOp' = Op("evict", c, handshake[c].token)
    /\ UNCHANGED <<handshake, sockUserId, sockUserType, hasDisconnectHandler,
                   pendingOrderJoin, eventCount>>

\* Lines 68-74: store the identity on the socket, register it, join the user
\* room and suspend on the await of socket.join.
Register(c) ==
    /\ ControllerStep
    /\ running = RunningAfterEviction(c)
    /\ pc[c] = "register"
    /\ LET u == getUserById(handshake[c].token)
       IN  /\ sockUserId' = [sockUserId EXCEPT ![c] = u]
           /\ sockUserType' = [sockUserType EXCEPT ![c] = UserType(u)]
           /\ connectedUsers' = [connectedUsers EXCEPT ![u] = c]
           /\ rooms' = [rooms EXCEPT ![c] = @ \cup {UserRoom(u)}]
    /\ pc' = [pc EXCEPT ![c] = "join"]
    /\ running' = NoConn
    /\ lastOp' = Op("register", c, handshake[c].token)
    /\ lastEmits' = {}
    /\ fired' = {}
    /\ UNCHANGED <<handshake, connected, received, hasDisconnectHandler,
                   existingSocket, pendingOrderJoin, eventCount>>

\* Lines 82-97: wire the event handlers, acknowledge, attach the disconnect
\* listener.
Complete(c) ==
    /\ pc' = [pc EXCEPT ![c] = "ready"]
    /\ lastEmits' = Delivered(connected, {<<c, "connected">>})
    /\ received' = Deliver(connected, received, {<<c, "connected">>})
    /\ hasDisconnectHandler' = [hasDisconnectHandler EXCEPT ![c] = TRUE]
    /\ fired' = {}
    /\ UNCHANGED <<handshake, connected, sockUserId, sockUserType,
                   connectedUsers, existingSocket, pendingOrderJoin, running,
                   eventCount>>

\* Variant: the dashboard room is never joined.
JoinsDashboard_Never(userType) == FALSE

\* Line 77: if (socket.userType === 'vendor').
JoinsDashboard(userType) == userType = "vendor"

\* Line 74 resumes; lines 77-78 join the vendor dashboard room and suspend
\* again for a vendor, any other role runs on to line 97.
JoinReturn(c) ==
    /\ ControllerStep
    /\ running = NoConn
    /\ pc[c] = "join"
    /\ lastOp' = Op("join-return", c, sockUserId[c])
    /\ IF JoinsDashboard(sockUserType[c])
       THEN /\ rooms' = [rooms EXCEPT ![c] = @ \cup {VendorDashboardRoom(sockUserId[c])}]
            /\ pc' = [pc EXCEPT ![c] = "vjoin"]
            /\ lastEmits' = {}
            /\ fired' = {}
            /\ UNCHANGED <<handshake, connected, sockUserId, sockUserType,
                           connectedUsers, received, hasDisconnectHandler,
                           existingSocket, pendingOrderJoin, running, eventCount>>
       ELSE Complete(c) /\ UNCHANGED rooms

\* Line 78 resumes for a vendor.
VendorJoinReturn(c) ==
    /\ ControllerStep
    /\ running = NoConn
    /\ pc[c] = "vjoin"
    /\ lastOp' = Op("vendor-join-return", c, sockUserId[c])
    /\ Complete(c)
    /\ UNCHANGED rooms

\* The transport of a connected socket closes (client side or network):
\* Socket._onclose leaves all rooms, clears `connected` and emits 'disconnect'.
ClientClose(c) ==
    /\ ControllerStep
    /\ running = NoConn
    /\ connected[c]
    /\ connected' = [connected EXCEPT ![c] = FALSE]
    /\ rooms' = [rooms EXCEPT ![c] = {}]
    /\ connectedUsers' = RegistryAfterClose(connectedUsers, c)
    /\ fired' = IF hasDisconnectHandler[c] THEN {c} ELSE {}
    /\ lastOp' = Op("close", c, None)
    /\ lastEmits' = {}
    /\ UNCHANGED <<handshake, pc, sockUserId, sockUserType, received,
                   hasDisconnectHandler, existingSocket, pendingOrderJoin,
                   running, eventCount>>

\* ------------------------------------------- room events: lines 105-119

\* A client event reaches its listener only on a connected socket whose
\* listeners were attached by setupUserEventHandlers (line 85).
CanReceive(c) ==
    /\ running = NoConn
    /\ pc[c] = "ready"
    /\ connected[c]
    /\ eventCount < MaxEvents

\* Variant: the ownership comparison is missing.
OwnsUserRoom_Any(c, userId) == TRUE

\* Line 212: may the caller join the room of data.userId?
OwnsUserRoom(c, userId) == userId = sockUserId[c]

\* handleJoinUserRoom(socket, {userId}), lines 208-220.
handleJoinUserRoom(c, userId) ==
    /\ ControllerStep
    /\ CanReceive(c)
    /\ eventCount' = eventCount + 1
    /\ lastOp' = Op("join-user-room", c, userId)
    /\ IF ~OwnsUserRoom(c, userId)
       THEN /\ lastEmits' = {<<c, "error">>}
            /\ received' = [received EXCEPT ![c] = @ \cup {"error"}]
            /\ UNCHANGED rooms
       ELSE /\ rooms' = [rooms EXCEPT ![c] = @ \cup {UserRoom(userId)}]
            /\ lastEmits' = {<<c, "room-joined">>}
            /\ received' = [received EXCEPT ![c] = @ \cup {"room-joined"}]
    /\ fired' = {}
    /\ UNCHANGED <<handshake, pc, connected, sockUserId, sockUserType,
                   connectedUsers, hasDisconnectHandler, existingSocket,
                   pendingOrderJoin, running>>

\* Variant: the socket leaves every room it is in.
RoomsAfterLeave_All(c, userId) == {}

\* Line 227: socket.leave(`user-${userId}`), with no check of userId.
RoomsAfterLeave(c, userId) == rooms[c] \ {UserRoom(userId)}

\* handleLeaveUserRoom(socket, {userId}), lines 225-229.
handleLeaveUserRoom(c, userId) ==
    /\ ControllerStep
    /\ CanReceive(c)
    /\ eventCount' = eventCount + 1
    /\ lastOp' = Op("leave-user-room", c, userId)
    /\ rooms' = [rooms EXCEPT ![c] = RoomsAfterLeave(c, userId)]
    /\ lastEmits' = {<<c, "room-left">>}
    /\ received' = [received EXCEPT ![c] = @ \cup {"room-left"}]
    /\ fired' = {}
    /\ UNCHANGED <<handshake, pc, connected, sockUserId, sockUserType,
                   connectedUsers, hasDisconnectHandler, existingSocket,
                   pendingOrderJoin, running>>

\* verifyOrderAccess(userId, orderId, userType), lines 468-474.
verifyOrderAccess(userId, orderId, userType) == TRUE

\* handleJoinOrderRoom(socket, {orderId}), lines 234-239: suspends on the
\* await of verifyOrderAccess.
handleJoinOrderRoom(c, orderId) ==
    /\ ControllerStep
    /\ CanReceive(c)
    /\ orderId \notin pendingOrderJoin[c]
    /\ eventCount' = eventCount + 1
    /\ lastOp' = Op("join-order-room", c, orderId)
    /\ pendingOrderJoin' = [pendingOrderJoin EXCEPT ![c] = @ \cup {orderId}]
    /\ lastEmits' = {}
    /\ fired' = {}
    /\ UNCHANGED <<handshake, pc, connected, sockUserId, sockUserType,
                   connectedUsers, rooms, received, hasDisconnectHandler,
                   existingSocket, running>>

\* Lines 239-248: the ownership check returned.
VerifyOrderAccessReturn(c, orderId) ==
    /\ ControllerStep
    /\ running = NoConn
    /\ orderId \in pendingOrderJoin[c]
    /\ pendingOrderJoin' = [pendingOrderJoin EXCEPT ![c] = @ \ {orderId}]
    /\ lastOp' = Op("join-order-room-return", c, orderId)
    /\ IF ~verifyOrderAccess(sockUserId[c], orderId, sockUserType[c])
       THEN /\ lastEmits' = Delivered(connected, {<<c, "error">>})
            /\ received' = Deliver(connected, received, {<<c, "error">>})
            /\ UNCHANGED rooms
       ELSE /\ rooms' = [rooms EXCEPT ![c] = @ \cup {OrderRoom(orderId)}]
            /\ lastEmits' = Delivered(connected, {<<c, "room-joined">>})
            /\ received' = Deliver(connected, received, {<<c, "room-joined">>})
    /\ fired' = {}
    /\ UNCHANGED <<handshake, pc, connected, sockUserId, sockUserType,
                   connectedUsers, hasDisconnectHandler, existingSocket,
                   running, eventCount>>

\* handleLeaveOrderRoom(socket, {orderId}), lines 259-263.
handleLeaveOrderRoom(c, orderId) ==
    /\ ControllerStep
    /\ CanReceive(c)
    /\ eventCount' = eventCount + 1
    /\ lastOp' = Op("leave-order-room", c, orderId)
    /\ rooms' = [rooms EXCEPT ![c] = @ \ {OrderRoom(orderId)}]
    /\ lastEmits' = {<<c, "room-left">>}
    /\ received' = [received EXCEPT ![c] = @ \cup {"room-left"}]
    /\ fired' = {}
    /\ UNCHANGED <<handshake, pc, connected, sockUserId, sockUserType,
                   connectedUsers, hasDisconnectHandler, existingSocket,
                   pendingOrderJoin, running>>

\* ------------------------------------- role events: lines 143-203, 277-361

AdminMonitoringRoom == <<"admin-monitoring", None>>

\* io.emit(ev) addresses every connected socket of the namespace.
Everyone == <<"everyone", None>>

\* The sockets an emission to a set of <<room, event>> pairs is written to.
RoomDeliveries(roomEmits) ==
    {x \in Conns \X {re[2] : re \in roomEmits} :
        /\ connected[x[1]]
        /\ \E re \in roomEmits :
              re[2] = x[2] /\ (re[1] = Everyone \/ re[1] \in rooms[x[1]])}

\* The events setupUserEventHandlers attaches a listener for (lines 105-137).
BaselineEvents ==
    {"join-user-room", "leave-user-room", "join-order-room", "leave-order-room"}

RoleEvents(userType) ==
    CASE userType = "customer" -> {"track-my-orders"}
      [] userType = "vendor" -> {"update-order-status", "send-customer-message"}
      [] userType = "admin" -> {"broadcast-announcement", "monitor-transactions"}
      [] OTHER -> {}

AllRoleEvents ==
    RoleEvents("customer") \cup RoleEvents("vendor") \cup RoleEvents("admin")

\* Variant: every role's handlers are attached to every session.
HasListener_All(c, ev) == TRUE

\* Lines 124-137: the role handlers are attached by socket.userType.
HasListener(c, ev) == ev \in BaselineEvents \cup RoleEvents(sockUserType[c])

\* null, as getOrderDetails returns it.
NoOrder == [userId |-> None, vendorId |-> None]

\* Variant: the lookup finds the stored order.
getOrderDetails_Found(orderId) ==
    IF orderId \in Orders
    THEN [userId |-> OrderCustomer(orderId), vendorId |-> OrderVendor(orderId)]
    ELSE NoOrder

\* getOrderDetails(orderId), lines 476-480: a placeholder that returns null.
getOrderDetails(orderId) == NoOrder

\* handleOrderStatusUpdate(socket, {orderId, status}), lines 277-328: it
\* throws 'Order not found' (lines 287-289) or emits to the customer's room;
\* the emission of `order-status-changed` is commented out (lines 292-300).
handleOrderStatusUpdate(orderId, status) ==
    LET orderDetails == getOrderDetails(orderId) IN
    IF orderDetails = NoOrder
    THEN [threw |-> TRUE, emits |-> {}]
    ELSE [threw |-> FALSE,
          emits |-> {<<UserRoom(orderDetails.userId), "new-notification">>}
                    \cup IF status = "order-status-update"
                         THEN {<<UserRoom(orderDetails.userId), "order-ready">>}
                         ELSE {}]

\* What a handler step leaves alone besides rooms, received and the emissions.
EventFrame ==
    /\ UNCHANGED <<orderVars, authVars>>
    /\ fired' = {}
    /\ lastResult' = None
    /\ UNCHANGED <<handshake, pc, connected, sockUserId, sockUserType,
                   connectedUsers, hasDisconnectHandler, existingSocket,
                   pendingOrderJoin, running, server, isInitialized, now,
                   nextClear, userEventCounts, accepted>>

\* 'update-order-status' listener, lines 175-182: the catch block answers a
\* throwing handleOrderStatusUpdate with `error`.
OnUpdateOrderStatus(c, orderId, status) ==
    /\ CanReceive(c)
    /\ HasListener(c, "update-order-status")
    /\ eventCount' = eventCount + 1
    /\ lastOp' = Op("update-order-status", c, <<orderId, status>>)
    /\ LET r == handleOrderStatusUpdate(orderId, status)
           toCaller == IF r.threw THEN {<<c, "error">>} ELSE {}
       IN  /\ lastRoomEmits' = r.emits
           /\ lastEmits' = RoomDeliveries(r.emits) \cup toCaller
           /\ received' = Deliver(connected, received,
                                  RoomDeliveries(r.emits) \cup toCaller)
    /\ UNCHANGED rooms
    /\ EventFrame

\* handleVendorMessage(socket, {userId}), lines 333-344.
handleVendorMessage(c, userId) ==
    /\ CanReceive(c)
    /\ HasListener(c, "send-customer-message")
    /\ eventCount' = eventCount + 1
    /\ lastOp' = Op("send-customer-message", c, userId)
    /\ LET emits == {<<UserRoom(userId), "vendor-message">>}
           all == RoomDeliveries(emits) \cup {<<c, "message-sent">>}
       IN  /\ lastRoomEmits' = emits
           /\ lastEmits' = all
           /\ received' = Deliver(connected, received, all)
    /\ UNCHANGED rooms
    /\ EventFrame

\* handleAdminBroadcast(socket, {message}), lines 349-361.
handleAdminBroadcast(c) ==
    /\ CanReceive(c)
    /\ HasListener(c, "broadcast-announcement")
    /\ eventCount' = eventCount + 1
    /\ lastOp' = Op("broadcast-announcement", c, "message")
    /\ LET emits == {<<Everyone, "admin-announcement">>}
       IN  /\ lastRoomEmits' = emits
           /\ lastEmits' = RoomDeliveries(emits)
           /\ received' = Deliver(connected, received, RoomDeliveries(emits))
    /\ UNCHANGED rooms
    /\ EventFrame

\* 'monitor-transactions' listener, lines 200-202.
OnMonitorTransactions(c) ==
    /\ CanReceive(c)
    /\ HasListener(c, "monitor-transactions")
    /\ eventCount' = eventCount + 1
    /\ lastOp' = Op("monitor-transactions", c, "ignored")
    /\ rooms' = [rooms EXCEPT ![c] = @ \cup {AdminMonitoringRoom}]
    /\ lastRoomEmits' = {}
    /\ lastEmits' = {}
    /\ UNCHANGED received
    /\ EventFrame

\* 'track-my-orders' listener, lines 145-163; getUserActiveOrders (lines
\* 462-466) returns no order, so no room is joined.
OnTrackMyOrders(c) ==
    /\ CanReceive(c)
    /\ HasListener(c, "track-my-orders")
    /\ eventCount' = eventCount + 1
    /\ lastOp' = Op("track-my-orders", c, "ignored")
    /\ lastRoomEmits' = {}
    /\ lastEmits' = {<<c, "tracking-orders">>}
    /\ received' = [received EXCEPT ![c] = @ \cup {"tracking-orders"}]
    /\ UNCHANGED rooms
    /\ EventFrame

\* An event no listener is attached for on this socket: Socket.IO drops it.
UnhandledEvent(c, ev) ==
    /\ CanReceive(c)
    /\ ~HasListener(c, ev)
    /\ eventCount' = eventCount + 1
    /\ lastOp' = Op(ev, c, "ignored")
    /\ lastRoomEmits' = {}
    /\ lastEmits' = {}
    /\ UNCHANGED <<rooms, received>>
    /\ EventFrame

\* The payload of an event sent without one.
Undefined == "undefined"

\* The listeners whose handler destructures its payload outside any try
\* block (lines 209, 226, 235, 260, 334, 350).
UnguardedEvents ==
    {"join-user-room", "leave-user-room", "join-order-room",
     "leave-order-room", "send-customer-message", "broadcast-announcement"}

\* The events whose listener reads its payload.
PayloadEvents == UnguardedEvents \cup {"update-order-status"}

\* unexpectedErrorHandler -> exitHandler (index.js lines 74-88): server.close
\* stops the listener; process.exit(1) follows once every connection ended.
unexpectedErrorHandler(srv) == "closing"

\* An event arrives with no payload (data is undefined).  Destructuring it
\* throws a TypeError: in an unguarded handler that is an uncaught exception
\* (or an unhandled rejection for the async handleJoinOrderRoom) and reaches
\* unexpectedErrorHandler; in 'update-order-status' the listener's catch
\* block answers with `error`.
EventWithoutPayload(c, ev) ==
    /\ UNCHANGED <<orderVars, authVars>>
    /\ CanReceive(c)
    /\ ev \in PayloadEvents
    /\ HasListener(c, ev)
    /\ eventCount' = eventCount + 1
    /\ lastOp' = Op(ev, c, IF ev = "update-order-status"
                            THEN <<Undefined, Undefined>> ELSE Undefined)
    /\ lastRoomEmits' = {}
    /\ IF ev \in UnguardedEvents
       THEN /\ server' = unexpectedErrorHandler(server)
            /\ lastEmits' = {}
            /\ UNCHANGED received
       ELSE /\ lastEmits' = {<<c, "error">>}
            /\ received' = [received EXCEPT ![c] = @ \cup {"error"}]
            /\ UNCHANGED server
    /\ fired' = {}
    /\ lastResult' = None
    /\ UNCHANGED <<handshake, pc, connected, sockUserId, sockUserType,
                   connectedUsers, rooms, hasDisconnectHandler, existingSocket,
                   pendingOrderJoin, running, isInitialized, now, nextClear,
                   userEventCounts, accepted>>

\* The callback of server.close (index.js lines 76-79) runs when the last
\* connection has ended: process.exit(1).  The registry dies with the process.
ProcessExit ==
    /\ UNCHANGED <<orderVars, authVars>>
    /\ running = NoConn
    /\ server = "closing"
    /\ \A c \in Conns : ~connected[c]
    /\ server' = "exited"
    /\ running' = Exited
    /\ connectedUsers' = [u \in Users |-> NoConn]
    /\ lastOp' = Op("exit", NoConn, None)
    /\ lastEmits' = {}
    /\ lastRoomEmits' = {}
    /\ lastResult' = None
    /\ fired' = {}
    /\ UNCHANGED <<handshake, pc, connected, sockUserId, sockUserType, rooms,
                   received, hasDisconnectHandler, existingSocket,
                   pendingOrderJoin, eventCount, isInitialized, now, nextClear,
                   userEventCounts, accepted>>

\* ------------------------------ notification emitter: socket.service.js

\* initialize(io), lines 16-25.
initialize ==
    /\ UNCHANGED <<orderVars, authVars>>
    /\ running = NoConn
    /\ ~isInitialized
    /\ isInitialized' = TRUE
    /\ lastOp' = Op("initialize", NoConn, None)
    /\ lastEmits' = {}
    /\ lastRoomEmits' = {}
    /\ lastResult' = "returned"
    /\ fired' = {}
    /\ UNCHANGED <<handshake, pc, connected, sockUserId, sockUserType,
                   connectedUsers, rooms, received, hasDisconnectHandler,
                   existingSocket, pendingOrderJoin, running, eventCount,
                   server, now, nextClear, userEventCounts, accepted>>

\* The emit methods SocketController defines (lines 376, 392, 425) and its
\* handleOrderStatusUpdate (line 277).
ControllerMethods ==
    {"emitNotification", "emitOrderStatusUpdate", "emitOrderCompletion",
     "handleOrderStatusUpdate"}

\* Variant: the call of ensureInitialized stands before the try block.
Caught_AfterEnsure(op) == FALSE

\* Every emitter wraps its whole body, ensureInitialized included, in
\* try/catch and logs (lines 41-56, 64-79, 87-109, 117-132, 140-169, 177-227,
\* 235-252, 260-275).
Caught(op) == TRUE

Outcome(threw, emits) == [threw |-> threw, emits |-> emits]

\* controller.emitNotification(userId, n), lines 376-385.
emitNotificationBody(userId) ==
    Outcome(FALSE, {<<UserRoom(userId), "new-notification">>})

\* Variant: the dashboard room is served through the user room as well.
NewOrderEmits_Twice(vendorId) ==
    {<<UserRoom(vendorId), "new-order-notification">>,
     <<UserRoom(vendorId), "dashboard-update">>,
     <<VendorDashboardRoom(vendorId), "dashboard-update">>,
     <<VendorDashboardRoom(vendorId), "new-order-notification">>}

\* emitNewOrderToVendor, lines 212 and 217: the two room emissions.
NewOrderEmits(vendorId) ==
    {<<UserRoom(vendorId), "new-order-notification">>,
     <<VendorDashboardRoom(vendorId), "dashboard-update">>}

\* What the body of an emitter does once ensureInitialized has returned.
\* `a` is the userId, vendorId or orderId argument; emitOrderReady takes the
\* customer from orderData.userId.
EmitterBody(op, a) ==
    CASE op = "emitBalanceUpdate" ->
            IF "emitBalanceUpdate" \in ControllerMethods
            THEN Outcome(FALSE, {<<UserRoom(a), "balance-updated">>})
            ELSE Outcome(TRUE, {})
      [] op = "emitPaymentCompleted" ->
            IF "emitPaymentCompleted" \in ControllerMethods
            THEN Outcome(FALSE, {<<UserRoom(a), "payment-completed">>})
            ELSE Outcome(TRUE, {})
      [] op = "emitOrderStatusChange" -> handleOrderStatusUpdate(a, "ready")
      [] op = "emitNotification" -> emitNotificationBody(a)
      [] op = "emitOrderReady" ->
            Outcome(FALSE, {<<OrderRoom(a), "order-ready">>}
                           \cup emitNotificationBody(OrderCustomer(a)).emits)
      [] op = "emitNewOrderToVendor" -> Outcome(FALSE, NewOrderEmits(a))
      [] op = "emitTransactionForAdmin" ->
            Outcome(FALSE, {<<AdminMonitoringRoom, "new-transaction">>})
      [] op = "broadcastAnnouncement" ->
            Outcome(FALSE, {<<Everyone, "system-announcement">>})

EmitterOps ==
    {"emitBalanceUpdate", "emitPaymentCompleted", "emitOrderStatusChange",
     "emitNotification", "emitOrderReady", "emitNewOrderToVendor",
     "emitTransactionForAdmin", "broadcastAnnouncement"}

\* The arguments the callers pass: a user id, an order id, or none.
EmitterArgs(op) ==
    CASE op \in {"emitBalanceUpdate", "emitPaymentCompleted", "emitNotification"}
            -> {"c1"}
      [] op = "emitNewOrderToVendor" -> {"v1", "v9"}
      [] op \in {"emitOrderStatusChange", "emitOrderReady"} -> {"o1"}
      [] OTHER -> {None}

\* One call of a SocketService emitter from a request handler.
Emitter(op, a) ==
    /\ UNCHANGED <<orderVars, authVars>>
    /\ running = NoConn
    /\ LET body == IF isInitialized THEN EmitterBody(op, a) ELSE Outcome(TRUE, {})
       IN  /\ lastRoomEmits' = body.emits
           /\ lastEmits' = RoomDeliveries(body.emits)
           /\ received' = Deliver(connected, received, RoomDeliveries(body.emits))
           /\ lastResult' = IF body.threw /\ ~Caught(op) THEN "threw" ELSE "returned"
    /\ lastOp' = Op(op, NoConn, a)
    /\ fired' = {}
    /\ UNCHANGED <<handshake, pc, connected, sockUserId, sockUserType,
                   connectedUsers, rooms, hasDisconnectHandler, existingSocket,
                   pendingOrderJoin, running, eventCount, server,
                   isInitialized, now, nextClear, userEventCounts, accepted>>

\* ----------------------- administrative eviction: controller lines 512-544

\* hasExistingConnection(userId), lines 517-519.
hasExistingConnection(userId) == connectedUsers[userId] # NoConn

\* Line 71 stores socket.id in the registry, so the value the registry
\* returns is a string and has no emit or disconnect method.
RegistryHoldsSockets == FALSE

\* socketService.disconnectExistingConnections(userId, reason), service lines
\* 311-318, calling the controller method of lines 526-544.  The call of
\* existingSocket.emit on a socket id throws a TypeError before anything is
\* sent; the service's catch block logs it.
disconnectExistingConnections(userId) ==
    /\ UNCHANGED <<orderVars, authVars>>
    /\ running = NoConn
    /\ isInitialized
    /\ lastOp' = Op("disconnectExistingConnections", NoConn, userId)
    /\ lastResult' = "returned"
    /\ lastRoomEmits' = {}
    /\ IF hasExistingConnection(userId) /\ RegistryHoldsSockets
       THEN LET old == connectedUsers[userId] IN
            /\ lastEmits' = Delivered(connected, {<<old, "session-replaced">>})
            /\ received' = Deliver(connected, received, {<<old, "session-replaced">>})
            /\ connected' = [connected EXCEPT ![old] = FALSE]
            /\ rooms' = [rooms EXCEPT ![old] = {}]
            /\ fired' = IF connected[old] /\ hasDisconnectHandler[old]
                        THEN {old} ELSE {}
            /\ connectedUsers' = [connectedUsers EXCEPT ![userId] = NoConn]
       ELSE /\ lastEmits' = {}
            /\ fired' = {}
            /\ UNCHANGED <<received, connected, rooms, connectedUsers>>
    /\ UNCHANGED <<handshake, pc, sockUserId, sockUserType,
                   hasDisconnectHandler, existingSocket, pendingOrderJoin,
                   running, eventCount, server, isInitialized, now, nextClear,
                   userEventCounts, accepted>>

\* --------------------------------- rate limiter: middlewares/socket.js 85-118

\* The eventsPerMinute argument of socketRateLimit.
eventsPerMinute == MaxBudget

\* What the limiter and the clock leave alone.
SocketsUnchanged ==
    /\ UNCHANGED <<orderVars, authVars>>
    /\ lastEmits' = {}
    /\ lastRoomEmits' = {}
    /\ fired' = {}
    /\ UNCHANGED <<handshake, pc, connected, sockUserId, sockUserType,
                   connectedUsers, rooms, received, hasDisconnectHandler,
                   existingSocket, pendingOrderJoin, running, server,
                   isInitialized>>

\* socketRateLimit(eventsPerMinute), lines 85-91: builds the Map and starts
\* the interval timer.
socketRateLimit ==
    /\ nextClear = NoTimer
    /\ nextClear' = now + IntervalMs
    /\ lastOp' = Op("socketRateLimit", NoConn, None)
    /\ lastResult' = None
    /\ SocketsUnchanged
    /\ UNCHANGED <<eventCount, now, userEventCounts, accepted>>

\* Time passes; a due timer callback runs before later time is observed.
Advance ==
    /\ now + Tick \in Times
    /\ nextClear = NoTimer \/ now < nextClear
    /\ now' = now + Tick
    /\ lastOp' = Op("advance", NoConn, None)
    /\ lastResult' = None
    /\ SocketsUnchanged
    /\ UNCHANGED <<eventCount, nextClear, userEventCounts, accepted>>

\* The setInterval callback, lines 89-91: userEventCounts.clear().
ClearCounts ==
    /\ nextClear # NoTimer
    /\ now >= nextClear
    /\ userEventCounts' = [u \in RateUsers |-> [b \in Buckets |-> 0]]
    /\ nextClear' = nextClear + IntervalMs
    /\ lastOp' = Op("clear", NoConn, None)
    /\ lastResult' = None
    /\ SocketsUnchanged
    /\ UNCHANGED <<eventCount, now, accepted>>

\* Math.floor(now / 60000), line 101.
Bucket(t) == t \div IntervalMs

\* Math.ceil(now / 60000) * 60000, line 110: the resetTime of a rejection.
ResetTime(t) == ((t + IntervalMs - 1) \div IntervalMs) * IntervalMs

\* The middleware, lines 93-117, for a socket whose socket.user.id is userId
\* (None: no socket.user): runs to completion without an await.
RateLimit(userId) ==
    /\ nextClear # NoTimer
    /\ eventCount < MaxRateEvents
    /\ eventCount' = eventCount + 1
    /\ lastOp' = Op("rate-limit", NoConn, userId)
    /\ IF userId = None
       THEN /\ lastResult' = "next"
            /\ UNCHANGED <<userEventCounts, accepted>>
       ELSE LET b == Bucket(now)
                currentCount == userEventCounts[userId][b]
            IN  IF currentCount >= eventsPerMinute
                THEN /\ lastResult' = "RATE_LIMIT"
                     /\ UNCHANGED <<userEventCounts, accepted>>
                ELSE /\ userEventCounts' =
                            [userEventCounts EXCEPT ![userId][b] = currentCount + 1]
                     /\ accepted' = [accepted EXCEPT ![userId][b] = @ + 1]
                     /\ lastResult' = "next"
    /\ SocketsUnchanged
    /\ UNCHANGED <<now, nextClear>>

\* ------------------------------------------------------- specifications

\* Connection manager: connects, lookups, replacements and closes.
Next ==
    \/ \E c \in Conns, h \in Handshakes : Connection(c, h)
    \/ \E c \in Conns : LookupReturn(c)
    \/ \E c \in Conns : EvictExisting(c)
    \/ \E c \in Conns : Register(c)
    \/ \E c \in Conns : JoinReturn(c)
    \/ \E c \in Conns : VendorJoinReturn(c)
    \/ \E c \in Conns : ClientClose(c)

Spec == Init /\ [][Next]_vars

\* Connection manager plus the baseline room events of authenticated
\* sessions; the handshakes are those of existing users.
RoomConns == {c \in Conns : c <= MaxSessions}

RoomHandshakes ==
    {h \in Handshakes : h.token \in {"c1", "v1", "a1"} /\ h.userId = None}

NextRooms ==
    \/ \E c \in RoomConns, h \in RoomHandshakes : Connection(c, h)
    \/ \E c \in RoomConns : LookupReturn(c)
    \/ \E c \in RoomConns : EvictExisting(c)
    \/ \E c \in RoomConns : Register(c)
    \/ \E c \in RoomConns : JoinReturn(c)
    \/ \E c \in RoomConns : VendorJoinReturn(c)
    \/ \E c \in RoomConns : ClientClose(c)
    \/ \E c \in RoomConns, u \in Users : handleJoinUserRoom(c, u)
    \/ \E c \in RoomConns, u \in Users : handleLeaveUserRoom(c, u)
    \/ \E c \in RoomConns, o \in Orders : handleJoinOrderRoom(c, o)
    \/ \E c \in RoomConns, o \in Orders : VerifyOrderAccessReturn(c, o)
    \/ \E c \in RoomConns, o \in Orders : handleLeaveOrderRoom(c, o)

SpecRooms == Init /\ [][NextRooms]_vars

\* Connection manager plus every client event of an authenticated session,
\* with well-formed payloads, payloads that lack their field (None) and no
\* payload at all.
EventUsers == {"c1", None}
EventOrders == {"o1", None}
Statuses == {"completed", "bogus"}

NextEvents ==
    \/ \E c \in RoomConns, h \in RoomHandshakes : Connection(c, h)
    \/ \E c \in RoomConns : LookupReturn(c)
    \/ \E c \in RoomConns : EvictExisting(c)
    \/ \E c \in RoomConns : Register(c)
    \/ \E c \in RoomConns : JoinReturn(c)
    \/ \E c \in RoomConns : VendorJoinReturn(c)
    \/ \E c \in RoomConns : ClientClose(c)
    \/ \E c \in RoomConns, u \in EventUsers : handleJoinUserRoom(c, u)
    \/ \E c \in RoomConns, u \in EventUsers : handleLeaveUserRoom(c, u)
    \/ \E c \in RoomConns, o \in EventOrders : handleJoinOrderRoom(c, o)
    \/ \E c \in RoomConns, o \in EventOrders : VerifyOrderAccessReturn(c, o)
    \/ \E c \in RoomConns, o \in EventOrders : handleLeaveOrderRoom(c, o)
    \/ \E c \in RoomConns : OnTrackMyOrders(c)
    \/ \E c \in RoomConns, o \in EventOrders, st \in Statuses :
            OnUpdateOrderStatus(c, o, st)
    \/ \E c \in RoomConns, u \in EventUsers : handleVendorMessage(c, u)
    \/ \E c \in RoomConns : handleAdminBroadcast(c)
    \/ \E c \in RoomConns : OnMonitorTransactions(c)
    \/ \E c \in RoomConns, ev \in PayloadEvents : EventWithoutPayload(c, ev)
    \/ ProcessExit

SpecEvents == Init /\ [][NextEvents]_vars

\* The emitter from process start: initialize, sessions coming and going,
\* and emitter calls from request handlers.
InitEmitter == InitBase /\ isInitialized = FALSE

EmitterHandshakes == {h \in RoomHandshakes : h.token \in {"c1", "v1"}}

NextEmitter ==
    \/ initialize
    \/ \E c \in RoomConns, h \in EmitterHandshakes : Connection(c, h)
    \/ \E c \in RoomConns : LookupReturn(c)
    \/ \E c \in RoomConns : EvictExisting(c)
    \/ \E c \in RoomConns : Register(c)
    \/ \E c \in RoomConns : JoinReturn(c)
    \/ \E c \in RoomConns : VendorJoinReturn(c)
    \/ \E c \in RoomConns : ClientClose(c)
    \/ \E op \in EmitterOps : \E a \in EmitterArgs(op) : Emitter(op, a)

SpecEmitter == InitEmitter /\ [][NextEmitter]_vars

\* The rate limiter on its own: creation, the clock, the periodic clear and
\* events of users and of a socket without socket.user.
NextRate ==
    \/ socketRateLimit
    \/ Advance
    \/ ClearCounts
    \/ \E u \in RateUsers \cup {None} : RateLimit(u)

SpecRate == Init /\ [][NextRate]_vars

\* Sessions coming and going, and administrative evictions called from
\* request handlers.
NextEvict ==
    \/ \E c \in RoomConns, h \in RoomHandshakes : Connection(c, h)
    \/ \E c \in RoomConns : LookupReturn(c)
    \/ \E c \in RoomConns : EvictExisting(c)
    \/ \E c \in RoomConns : Register(c)
    \/ \E c \in RoomConns : JoinReturn(c)
    \/ \E c \in RoomConns : VendorJoinReturn(c)
    \/ \E c \in RoomConns : ClientClose(c)
    \/ \E u \in Users : disconnectExistingConnections(u)

SpecEvict == Init /\ [][NextEvict]_vars

\* Sessions of the three roles and the role-scoped events, sent by sessions
\* of any role.
NextRoles ==
    \/ \E c \in RoomConns, h \in RoomHandshakes : Connection(c, h)
    \/ \E c \in RoomConns : LookupReturn(c)
    \/ \E c \in RoomConns : EvictExisting(c)
    \/ \E c \in RoomConns : Register(c)
    \/ \E c \in RoomConns : JoinReturn(c)
    \/ \E c \in RoomConns : VendorJoinReturn(c)
    \/ \E c \in RoomConns : ClientClose(c)
    \/ \E c \in RoomConns : OnTrackMyOrders(c)
    \/ \E c \in RoomConns, o \in EventOrders, st \in Statuses :
            OnUpdateOrderStatus(c, o, st)
    \/ \E c \in RoomConns, u \in EventUsers : handleVendorMessage(c, u)
    \/ \E c \in RoomConns : handleAdminBroadcast(c)
    \/ \E c \in RoomConns : OnMonitorTransactions(c)
    \/ \E c \in RoomConns, ev \in AllRoleEvents : UnhandledEvent(c, ev)

SpecRoles == Init /\ [][NextRoles]_vars

\* ---------------------------------------------------------------- claims

\* The user a connection's token resolves to (None before a valid handshake).
TokenUser(c) == getUserById(handshake[c].token)

\* A live session: connected and authenticated (lines 69-71 have run).
Live(c) == connected[c] /\ sockUserId[c] # None

LiveSessions(u) == {c \in Conns : Live(c) /\ sockUserId[c] = u}

\* C1: for every user at most one live session exists in every reachable
\* state; right after a connection registered for U the registry entry of U
\* is that connection, and a connection it found registered and live has
\* received `session-replaced` and is closed.
C1_SingleLiveSession ==
    /\ \A u \in Users : Cardinality(LiveSessions(u)) <= 1
    /\ \A c \in Conns :
          pc[c] \in {"join", "vjoin", "ready"} /\ existingSocket[c] # NoConn
             => /\ "session-replaced" \in received[existingSocket[c]]
                /\ ~connected[existingSocket[c]]
    /\ \A c \in Conns :
          lastOp = Op("register", c, handshake[c].token)
             => /\ connectedUsers[sockUserId[c]] = c
                /\ \A d \in Conns \ {c} : sockUserId[d] = sockUserId[c] => ~connected[d]

\* C1 witness: a second connection of a user replaced a live first one and
\* is now the registered, connected session.
C1_Witness ==
    \E c \in Conns :
        /\ pc[c] = "ready"
        /\ existingSocket[c] # NoConn
        /\ connected[c]
        /\ connectedUsers[sockUserId[c]] = c
        /\ sockUserId[existingSocket[c]] = sockUserId[c]

\* C2: whenever no callback is running, every registry entry refers to a
\* connection that is connected and authenticated as that user.
C2_RegistryConsistent ==
    running = NoConn =>
        \A u \in Users :
            connectedUsers[u] # NoConn
               => connected[connectedUsers[u]] /\ sockUserId[connectedUsers[u]] = u

\* C3: while a connect attempt stands between its eviction step and its
\* registration step, no other connect attempt for the same user advances
\* and nobody else changes the user's registry entry.
C3_CriticalSection ==
    [][\A a \in Conns :
          pc[a] = "register"
             => \A b \in Conns \ {a} :
                   /\ (pc'[b] # pc[b] => handshake'[b].token # handshake[a].token)
                   /\ connectedUsers'[TokenUser(a)] # b
                        \/ connectedUsers[TokenUser(a)] = b]_vars

\* C3 witness: an attempt is between eviction and registration while another
\* attempt for the same user is suspended on its user lookup.
C3_Witness ==
    \E a \in Conns, b \in Conns :
        /\ a # b
        /\ pc[a] = "register"
        /\ pc[b] = "lookup"
        /\ handshake[a].token = handshake[b].token

\* C4: when a connect attempt that found a live connection registered is
\* about to register (line 71), the old connection has been sent
\* `session-replaced`, is closed and its registry entry is gone; `connected`
\* is sent only to a connection that registered.
C4_EvictionOrder ==
    \A c \in Conns :
        /\ pc[c] = "register" /\ existingSocket[c] # NoConn
             => /\ "session-replaced" \in received[existingSocket[c]]
                /\ ~connected[existingSocket[c]]
                /\ connectedUsers[TokenUser(c)] # existingSocket[c]
        /\ "connected" \in received[c] => sockUserId[c] # None

Registered(c) == \E u \in Users : connectedUsers[u] = c

\* C6: a connection whose authentication failed (no token, invalid token,
\* user not found) is closed, is not in the registry, is in no room and was
\* never sent `connected`; the failing step leaves the registry and all room
\* memberships as they were.
C6_AuthFailureLeavesNothing ==
    /\ [](\A c \in Conns :
             pc[c] = "rejected"
                => /\ ~connected[c]
                   /\ ~Registered(c)
                   /\ sockUserId[c] = None
                   /\ rooms[c] = {}
                   /\ "connected" \notin received[c])
    /\ [][\A c \in Conns :
             pc[c] # "rejected" /\ pc'[c] = "rejected"
                => connectedUsers' = connectedUsers /\ rooms' = rooms]_vars

\* C6 witness: a connection was rejected after its user lookup found nobody,
\* while another user's session is registered.
C6_Witness ==
    \E c \in Conns :
        /\ pc[c] = "rejected"
        /\ handshake[c].token = "ghost"
        /\ "error" \in received[c]
        /\ \E d \in Conns \ {c} : Registered(d)

\* C7: a connection whose handshake names a userId different from the user
\* its token resolves to is never registered and never joins a room.
C7_IdentityMismatchRejected ==
    \A c \in Conns :
        handshake[c].userId # None /\ handshake[c].userId # TokenUser(c)
           => ~Registered(c) /\ rooms[c] = {} /\ sockUserId[c] = None

\* C8: a connection whose token resolves to a user that is not active is
\* never registered and never joins a room.
C8_InactiveAccountRejected ==
    \A c \in Conns :
        TokenUser(c) # None /\ UserStatus(TokenUser(c)) # "active"
           => ~Registered(c) /\ rooms[c] = {} /\ sockUserId[c] = None

\* C9: no session is ever a member of another user's room, and a
\* `join-user-room` naming another user is answered with `error`, leaves the
\* session connected and leaves its room membership unchanged.
C9_NoForeignUserRoom ==
    /\ [](\A c \in Conns, u \in Users :
             UserRoom(u) \in rooms[c] => u = sockUserId[c])
    /\ [][\A c \in Conns :
             lastOp'.op = "join-user-room" /\ lastOp'.conn = c
                  /\ lastOp'.arg # sockUserId[c]
                => /\ rooms'[c] = rooms[c]
                   /\ <<c, "error">> \in lastEmits'
                   /\ <<c, "room-joined">> \notin lastEmits'
                   /\ connected'[c]]_vars

\* C9 witness: a session just asked for another user's room and got `error`.
C9_Witness ==
    \E c \in Conns :
        /\ lastOp.op = "join-user-room"
        /\ lastOp.conn = c
        /\ lastOp.arg # sockUserId[c]
        /\ <<c, "error">> \in lastEmits
        /\ connected[c]

\* Who may follow an order (comment of verifyOrderAccess, lines 469-472):
\* its customer, its vendor, or an admin.
MayAccessOrder(userId, orderId, userType) ==
    \/ userType = "admin"
    \/ userType = "customer" /\ OrderCustomer(orderId) = userId
    \/ userType = "vendor" /\ OrderVendor(orderId) = userId

\* C10: a session is a member of `order-O` only if it is O's customer, O's
\* vendor or an admin.
C10_OrderRoomOnlyForParties ==
    \A c \in Conns, o \in Orders :
        OrderRoom(o) \in rooms[c]
           => MayAccessOrder(sockUserId[c], o, sockUserType[c])

\* C11: once `join-order-room {O}` followed by `leave-order-room {O}` have
\* both been fully processed, the session is not a member of `order-O`: a
\* leave with no join pending leaves the session outside the room, and a
\* join that resumes right after the leave it preceded does not put the
\* session back.
C11_JoinLeaveRoundTrip ==
    /\ [](\A c \in Conns, o \in Orders :
             lastOp = Op("leave-order-room", c, o) /\ o \notin pendingOrderJoin[c]
                => OrderRoom(o) \notin rooms[c])
    /\ [][\A c \in Conns, o \in Orders :
             /\ lastOp = Op("leave-order-room", c, o)
             /\ lastOp' = Op("join-order-room-return", c, o)
             => OrderRoom(o) \notin rooms'[c]]_vars

\* C12: with a budget of eventsPerMinute, the limiter lets through at most
\* that many events of one user in one minute bucket, whenever the periodic
\* clear runs; an event it turns away is answered with RATE_LIMIT.
C12_BudgetPerBucket ==
    /\ \A u \in RateUsers, b \in Buckets : accepted[u][b] <= eventsPerMinute
    /\ lastOp.op = "rate-limit" /\ lastOp.arg \in RateUsers
          => lastResult \in {"next", "RATE_LIMIT"}

ClientEvents ==
    BaselineEvents \cup RoleEvents("customer") \cup RoleEvents("vendor")
        \cup RoleEvents("admin")

\* The payload lacks the field its handler reads, or is missing altogether.
Malformed(o) ==
    IF o.op = "update-order-status"
    THEN o.arg[1] \in {None, Undefined}
    ELSE o.op \in PayloadEvents /\ o.arg \in {None, Undefined}

\* C13: every inbound client event passes the rate limiter and the payload
\* validation before its handler runs: the step either is counted by the
\* limiter for the caller's current bucket or does nothing but answer
\* `error`, and an event with a malformed payload changes no room membership
\* and emits nothing but `error` to the caller.
C13_LimiterAndValidationFirst ==
    [][\A c \in Conns :
          eventCount' # eventCount /\ lastOp'.conn = c
               /\ lastOp'.op \in ClientEvents
             => LET u == sockUserId[c]
                    onlyError == /\ rooms' = rooms
                                 /\ lastEmits' \subseteq {<<c, "error">>}
                                 /\ lastRoomEmits' = {}
                    counted == u \in RateUsers =>
                                  userEventCounts'[u][Bucket(now)]
                                      = userEventCounts[u][Bucket(now)] + 1
                IN  /\ counted \/ onlyError
                    /\ Malformed(lastOp') => onlyError]_vars

\* The event came with no payload at all.
NoPayload(o) ==
    IF o.op = "update-order-status" THEN o.arg[1] = Undefined
    ELSE o.op \in PayloadEvents /\ o.arg = Undefined

\* C14: a fault inside an event handler is caught at the handler boundary:
\* the server keeps listening and the process keeps running, and an event
\* whose handler faults on a missing payload is answered with `error` to the
\* caller and closes no connection.
C14_CrashIsolation ==
    /\ [](server = "listening" /\ running # Exited)
    /\ [][\A c \in Conns :
             eventCount' # eventCount /\ lastOp'.conn = c /\ NoPayload(lastOp')
                => /\ <<c, "error">> \in lastEmits'
                   /\ connected' = connected
                   /\ server' = server]_vars

\* C15: when the vendor of an existing order has just sent
\* `update-order-status` with status `completed`, both `new-notification` and
\* `order-ready` were emitted to the room of the order's customer and every
\* connected session in that room received both.
C15_CompletedReachesCustomer ==
    lastOp.op = "update-order-status" =>
        LET o == lastOp.arg[1]
            st == lastOp.arg[2]
            c == lastOp.conn
        IN  o \in Orders /\ st = "completed" /\ OrderVendor(o) = sockUserId[c]
               => LET room == UserRoom(OrderCustomer(o)) IN
                  /\ {<<room, "new-notification">>, <<room, "order-ready">>}
                         \subseteq lastRoomEmits
                  /\ \A d \in Conns :
                        connected[d] /\ room \in rooms[d]
                           => {<<d, "new-notification">>, <<d, "order-ready">>}
                                  \subseteq lastEmits

\* The order lifecycle (order.service.js line 213).
ValidStatuses ==
    {"pending", "confirmed", "preparing", "ready", "completed", "cancelled"}

CustomerEvents == {"new-notification", "order-ready"}

C17_EmittersNeverThrow ==
    /\ [](lastOp.op \in EmitterOps => lastResult = "returned")
    /\ [][lastOp'.op \in EmitterOps
             => connectedUsers' = connectedUsers /\ rooms' = rooms]_vars

\* C17 witness: emitNewOrderToVendor was called before initialize(io) and
\* returned.
C17_Witness ==
    /\ ~isInitialized
    /\ lastOp.op = "emitNewOrderToVendor"
    /\ lastResult = "returned"
    /\ lastRoomEmits = {}

\* C18: a call of emitNewOrderToVendor on an initialized emitter returns
\* after exactly two emissions, `new-order-notification` to the vendor's user
\* room and `dashboard-update` to the vendor's dashboard room; a connected
\* session receives each of the two events exactly when it is in that room,
\* and when no session of the vendor is connected nothing is written.
C18_NewOrderTwoEmissions ==
    isInitialized /\ lastOp.op = "emitNewOrderToVendor" =>
        LET v == lastOp.arg IN
        /\ lastResult = "returned"
        /\ lastRoomEmits = {<<UserRoom(v), "new-order-notification">>,
                            <<VendorDashboardRoom(v), "dashboard-update">>}
        /\ \A c \in Conns :
              /\ <<c, "new-order-notification">> \in lastEmits
                    <=> connected[c] /\ UserRoom(v) \in rooms[c]
              /\ <<c, "dashboard-update">> \in lastEmits
                    <=> connected[c] /\ VendorDashboardRoom(v) \in rooms[c]
        /\ \A e \in lastEmits :
              e[2] \in {"new-order-notification", "dashboard-update"}
        /\ (\A c \in Conns : ~(connected[c] /\ sockUserId[c] = v))
              => lastEmits = {}

\* C18 witness: a ready vendor session has just received both events of one
\* call.
C18_Witness ==
    /\ isInitialized
    /\ lastOp.op = "emitNewOrderToVendor"
    /\ \E c \in Conns :
          /\ pc[c] = "ready"
          /\ sockUserId[c] = lastOp.arg
          /\ {<<c, "new-order-notification">>, <<c, "dashboard-update">>}
                 \subseteq lastEmits

\* C19: on an initialized emitter emitBalanceUpdate(userId) emits
\* `balance-updated` and emitPaymentCompleted(userId) emits
\* `payment-completed` to room `user-{userId}`, and every connected session in
\* that room receives the event.
C19_BalanceAndPaymentEmitted ==
    /\ isInitialized /\ lastOp.op = "emitBalanceUpdate"
          => /\ <<UserRoom(lastOp.arg), "balance-updated">> \in lastRoomEmits
             /\ \A c \in Conns :
                   connected[c] /\ UserRoom(lastOp.arg) \in rooms[c]
                      => <<c, "balance-updated">> \in lastEmits
    /\ isInitialized /\ lastOp.op = "emitPaymentCompleted"
          => /\ <<UserRoom(lastOp.arg), "payment-completed">> \in lastRoomEmits
             /\ \A c \in Conns :
                   connected[c] /\ UserRoom(lastOp.arg) \in rooms[c]
                      => <<c, "payment-completed">> \in lastEmits

\* C20: on an initialized emitter emitOrderStatusChange(orderId) emits
\* `order-status-changed` to room `order-{orderId}` and `new-notification` to
\* the room of the order's customer.
C20_StatusChangeEmitted ==
    isInitialized /\ lastOp.op = "emitOrderStatusChange" =>
        /\ <<OrderRoom(lastOp.arg), "order-status-changed">> \in lastRoomEmits
        /\ <<UserRoom(OrderCustomer(lastOp.arg)), "new-notification">>
               \in lastRoomEmits

\* C21: right after disconnectExistingConnections(userId, reason) no session
\* of the user is registered (hasExistingConnection is false) and no
\* connection authenticated as the user is still open; the only event the
\* call writes is `session-replaced`.
C21_AdministrativeEviction ==
    lastOp.op = "disconnectExistingConnections" =>
        /\ ~hasExistingConnection(lastOp.arg)
        /\ \A c \in Conns : sockUserId[c] = lastOp.arg => ~connected[c]
        /\ \A e \in lastEmits : e[2] = "session-replaced"

\* C22: room `admin-monitoring` only ever contains admin sessions,
\* `admin-announcement` is only ever caused by an admin session, and a
\* role-scoped event sent by a session of another role changes no room, writes
\* to no connection and emits nothing.
C22_RoleGate ==
    /\ [](\A c \in Conns :
             AdminMonitoringRoom \in rooms[c] => sockUserType[c] = "admin")
    /\ [](<<Everyone, "admin-announcement">> \in lastRoomEmits
             => sockUserType[lastOp.conn] = "admin")
    /\ [][\A c \in Conns :
             /\ eventCount' # eventCount
             /\ lastOp'.conn = c
             /\ lastOp'.op \in AllRoleEvents
             /\ lastOp'.op \notin RoleEvents(sockUserType[c])
             => /\ rooms' = rooms
                /\ received' = received
                /\ lastEmits' = {}
                /\ lastRoomEmits' = {}]_vars

\* C22 witness: a customer session sent `monitor-transactions` and is in no
\* room but its own.
C22_Witness ==
    /\ lastOp.op = "monitor-transactions"
    /\ sockUserType[lastOp.conn] = "customer"
    /\ rooms[lastOp.conn] = {UserRoom(sockUserId[lastOp.conn])}
    /\ lastEmits = {}

\* C23: when handleConnection has just completed for a connection that is
\* still open, the connection is registered for its user U, is in `user-U`,
\* is in `vendor-dashboard-U` exactly if U is a vendor, carries the listeners
\* of exactly U's role, and the step has sent it `connected`.
C23_OnConnectPostcondition ==
    \A c \in Conns :
        /\ lastOp.op \in {"join-return", "vendor-join-return"}
        /\ lastOp.conn = c
        /\ pc[c] = "ready"
        /\ connected[c]
        => LET u == TokenUser(c) IN
           /\ sockUserId[c] = u
           /\ connectedUsers[u] = c
           /\ UserRoom(u) \in rooms[c]
           /\ VendorDashboardRoom(u) \in rooms[c] <=> UserType(u) = "vendor"
           /\ sockUserType[c] = UserType(u)
           /\ \A ev \in AllRoleEvents :
                 HasListener(c, ev) <=> ev \in RoleEvents(UserType(u))
           /\ <<c, "connected">> \in lastEmits
           /\ \A e \in lastEmits : e = <<c, "connected">>

\* C23 witness: a vendor's connection has just completed and is in both of
\* its rooms.
C23_Witness ==
    \E c \in Conns :
        /\ lastOp = Op("vendor-join-return", c, "v1")
        /\ connected[c]
        /\ rooms[c] = {UserRoom("v1"), VendorDashboardRoom("v1")}
        /\ connectedUsers["v1"] = c
        /\ "connected" \in received[c]

\* C24: a rate-limit rejection carries a resetTime that is the start of the
\* next one-minute bucket, strictly later than the time of the rejected
\* event.
C24_ResetTimeIsNextBucket ==
    lastOp.op = "rate-limit" /\ lastResult = "RATE_LIMIT"
       => /\ ResetTime(now) > now
          /\ ResetTime(now) = (Bucket(now) + 1) * IntervalMs

\* The events of connection handling itself (lines 26, 88), as opposed to
\* application events.
HandshakeEvents == {"error", "connected"}

\* C25: a connection that has not completed authentication (its
\* handleConnection is still suspended before registration, or it was
\* rejected) has received no application event.
C25_NoEventBeforeAuthentication ==
    \A c \in Conns :
        pc[c] \in {"new", "lookup", "check", "rejected"}
           => received[c] \subseteq HandshakeEvents

\* C26: a session that is live and registered for user U is a member of
\* room `user-U`, whatever join-user-room and leave-user-room events it sent.
C26_RegisteredSessionInOwnRoom ==
    \A c \in Conns, u \in Users :
        Live(c) /\ sockUserId[c] = u /\ connectedUsers[u] = c
           => UserRoom(u) \in rooms[c]

\* C26 as amended: a connection is in its user's room right after it
\* registered and right after a `join-user-room` for its own id, and it loses
\* that membership only by its own `leave-user-room` for its own id or by
\* closing.
C26_OwnRoomUntilLeft ==
    /\ [](\A c \in Conns :
             /\ lastOp.conn = c
             /\ lastOp.op \in {"register", "join-user-room"}
             /\ lastOp.arg = sockUserId[c]
             => UserRoom(sockUserId[c]) \in rooms[c])
    /\ [][\A c \in Conns, u \in Users :
             /\ sockUserId[c] = u
             /\ UserRoom(u) \in rooms[c]
             /\ UserRoom(u) \notin rooms'[c]
             => \/ lastOp' = Op("leave-user-room", c, u)
                \/ ~connected'[c]]_vars

\* C26 witness: a live, registered session has left its own user room.
C26_Witness ==
    \E c \in Conns :
        /\ lastOp = Op("leave-user-room", c, sockUserId[c])
        /\ Live(c)
        /\ connectedUsers[sockUserId[c]] = c
        /\ UserRoom(sockUserId[c]) \notin rooms[c]

\* ---------------------------------------------------------------------------
\* Order creation: POST /orders (order.controller.js createOrder).  Every
\* await of the handler is a point where another request may run.
\* ---------------------------------------------------------------------------

\* order.totalAmount = price * quantity of the requested item.
Amounts == 1..(MaxBalance + 1)

\* The real-time side and the registration service are not touched by the
\* endpoint (the new-order notification is the Emitter action).
OrderFrame == UNCHANGED <<realtimeVars, authVars>>

\* orderService.createOrder: vendor and customer exist, and the order is
\* stored with status 'preparing' and paymentStatus 'paid' before any balance
\* has been looked at.
CreateOrder(r, amount) ==
    /\ reqPc[r] = "idle"
    /\ reqPc' = [reqPc EXCEPT ![r] = "created"]
    /\ reqAmount' = [reqAmount EXCEPT ![r] = amount]
    /\ paidOrders' = paidOrders \cup {r}
    /\ UNCHANGED <<balance, customerDoc, vendorDoc, deducted>>
    /\ OrderFrame

\* customer = await userService.getUserById(userId): a document holding the
\* balance the database has at this moment.
LoadCustomer(r) ==
    /\ reqPc[r] = "created"
    /\ customerDoc' = [customerDoc EXCEPT ![r] = balance[Customer]]
    /\ reqPc' = [reqPc EXCEPT ![r] = "customerLoaded"]
    /\ UNCHANGED <<balance, reqAmount, vendorDoc, paidOrders, deducted>>
    /\ OrderFrame

\* deductFunds refuses when the loaded document cannot pay.
InsufficientBalance(docBalance, amount) == docBalance < amount

\* vendor = await userService.getUserById(vendorId), then the synchronous part
\* of customer.deductFunds: the check against the loaded document and the
\* in-memory subtraction.  A refusal is caught by the outer catch, which
\* answers 201 with a warning and leaves the stored order as it is.
LoadVendor(r) ==
    /\ reqPc[r] = "customerLoaded"
    /\ vendorDoc' = [vendorDoc EXCEPT ![r] = balance[Vendor]]
    /\ IF InsufficientBalance(customerDoc[r], reqAmount[r])
       THEN /\ reqPc' = [reqPc EXCEPT ![r] = "failed"]
            /\ UNCHANGED customerDoc
       ELSE /\ customerDoc' =
                  [customerDoc EXCEPT ![r] = customerDoc[r] - reqAmount[r]]
            /\ reqPc' = [reqPc EXCEPT ![r] = "savingCustomer"]
    /\ UNCHANGED <<balance, reqAmount, paidOrders, deducted>>
    /\ OrderFrame

\* The save of deductFunds writes the document's balance, then the synchronous
\* part of vendor.addFunds adds the amount to the loaded vendor document.
SaveCustomer(r) ==
    /\ reqPc[r] = "savingCustomer"
    /\ balance' = [balance EXCEPT ![Customer] = customerDoc[r]]
    /\ deducted' = deducted + reqAmount[r]
    /\ vendorDoc' = [vendorDoc EXCEPT ![r] = vendorDoc[r] + reqAmount[r]]
    /\ reqPc' = [reqPc EXCEPT ![r] = "savingVendor"]
    /\ UNCHANGED <<reqAmount, customerDoc, paidOrders>>
    /\ OrderFrame

\* The save of addFunds writes the vendor document's balance.  The later
\* saves of the handler (totalSales, pendingOrders) write only the paths they
\* modified, so the request ends here as far as balances go: 200.
SaveVendor(r) ==
    /\ reqPc[r] = "savingVendor"
    /\ balance' = [balance EXCEPT ![Vendor] = vendorDoc[r]]
    /\ reqPc' = [reqPc EXCEPT ![r] = "done"]
    /\ UNCHANGED <<reqAmount, customerDoc, vendorDoc, paidOrders, deducted>>
    /\ OrderFrame

NextOrders ==
    \/ \E r \in Requests, amount \in Amounts : CreateOrder(r, amount)
    \/ \E r \in Requests : LoadCustomer(r)
    \/ \E r \in Requests : LoadVendor(r)
    \/ \E r \in Requests : SaveCustomer(r)
    \/ \E r \in Requests : SaveVendor(r)

SpecOrders == Init /\ [][NextOrders]_vars

\* Sum of the totalAmount of a set of requests' orders.
RECURSIVE TotalAmount(_)
TotalAmount(rs) ==
    IF rs = {} THEN 0
    ELSE LET r == CHOOSE x \in rs : TRUE
         IN reqAmount[r] + TotalAmount(rs \ {r})

\* The request has been answered.
Answered(r) == reqPc[r] \in {"done", "failed"}

\* C27: an order stored as paid exists only if the customer was debited and
\* the vendor credited by its totalAmount; when the debit is refused for
\* insufficient balance no paid order remains.  Stated where it can be
\* observed: a refused request has no paid order, and once every request has
\* been answered the two balances differ from their initial values by exactly
\* the total of the paid orders.
C27_PaidOrderMeansDebitedAndCredited ==
    /\ \A r \in Requests : reqPc[r] = "failed" => r \notin paidOrders
    /\ (\A r \in Requests : reqPc[r] = "idle" \/ Answered(r)) =>
           /\ balance[Customer] =
                  InitialBalance(Customer) - TotalAmount(paidOrders)
           /\ balance[Vendor] =
                  InitialBalance(Vendor) + TotalAmount(paidOrders)

\* C28: the balance never goes below zero, and for any interleaving of
\* concurrent order creations the amounts successfully deducted add up to no
\* more than the balance the customer had before them.
C28_NeverOverSpent ==
    /\ \A u \in {Customer, Vendor} : balance[u] >= 0
    /\ deducted <= InitialBalance(Customer)

\* ---------------------------------------------------------------------------
\* Registration: auth.service.js sendPreRegistrationEmail and
\* completeRegistration, with the vendor codes of vendorCode.model.js.
\* ---------------------------------------------------------------------------

AuthFrame == UNCHANGED <<realtimeVars, orderVars>>

\* userService.getUserByEmail: the user holding the address, if any (User.email
\* is a unique index).
EmailTaken(email) == \E u \in users : u.email = email

\* VendorCode.isCodeAvailable: findOne({code, isUsed: false}).
isCodeAvailable(code) == usedBy[code] = None

\* sendPreRegistrationEmail up to its first await: the request passed the
\* 'Email already taken' check.  The request is named by the token it will
\* generate.
PreRegistrationStart(t, email, vendorCode) ==
    /\ t \notin issuedTokens
    /\ ~EmailTaken(email)
    /\ issuedTokens' = issuedTokens \cup {t}
    /\ preRegistering' =
           [preRegistering EXCEPT
               ![t] = [email |-> email, vendorCode |-> vendorCode,
                       type |-> "customer"]]
    /\ UNCHANGED <<pendingRegistrations, processingTokens, users, usedBy,
                   callPc, callToken, callData>>
    /\ AuthFrame

\* The rest of sendPreRegistrationEmail, from the return of isCodeAvailable:
\* an unavailable code throws, otherwise the data is stored under the new
\* token, with type 'vendor' when a code was given.
sendPreRegistrationEmail(t) ==
    LET userData == preRegistering[t] IN
    /\ userData # NoPending
    /\ preRegistering' = [preRegistering EXCEPT ![t] = NoPending]
    /\ IF userData.vendorCode # None /\ ~isCodeAvailable(userData.vendorCode)
       THEN UNCHANGED pendingRegistrations
       ELSE pendingRegistrations' =
                [pendingRegistrations EXCEPT
                    ![t] = [userData EXCEPT
                               !.type = IF userData.vendorCode # None
                                        THEN "vendor" ELSE "customer"]]
    /\ UNCHANGED <<processingTokens, issuedTokens, users, usedBy, callPc,
                   callToken, callData>>
    /\ AuthFrame

\* processingTokens.has(verificationToken).
AlreadyProcessing_Never(t) == FALSE
AlreadyProcessing(t) == t \in processingTokens

\* A call that is between its processingTokens.add and its finally block.
InProgress(k) == callPc[k] \in {"lookup", "creating", "usingCode"}

\* The finally block: processingTokens.delete(verificationToken).
Finally(k) == processingTokens' = processingTokens \ {callToken[k]}

\* pendingRegistrations.delete(verificationToken).
DeletePending(t) ==
    pendingRegistrations' = [pendingRegistrations EXCEPT ![t] = NoPending]

\* completeRegistration up to its first await.  A token that is being
\* processed is refused with 429 before the try block, so the refused call
\* neither sets nor clears the marker.  Otherwise the marker is set; an unknown
\* token throws, an expired one is deleted and throws, and the finally block
\* clears the marker in the same tick.
completeRegistration(k, t, expired) ==
    /\ callPc[k] = "idle"
    /\ callToken' = [callToken EXCEPT ![k] = t]
    /\ IF AlreadyProcessing(t)
       THEN /\ callPc' = [callPc EXCEPT ![k] = "rejected"]
            /\ UNCHANGED <<processingTokens, pendingRegistrations, callData>>
       ELSE IF pendingRegistrations[t] = NoPending
       THEN /\ callPc' = [callPc EXCEPT ![k] = "failed"]
            /\ UNCHANGED <<processingTokens, pendingRegistrations, callData>>
       ELSE IF expired
       THEN /\ callPc' = [callPc EXCEPT ![k] = "failed"]
            /\ DeletePending(t)
            /\ UNCHANGED <<processingTokens, callData>>
       ELSE /\ callPc' = [callPc EXCEPT ![k] = "lookup"]
            /\ processingTokens' = processingTokens \cup {t}
            /\ callData' = [callData EXCEPT ![k] = pendingRegistrations[t]]
            /\ UNCHANGED pendingRegistrations
    /\ UNCHANGED <<issuedTokens, users, usedBy, preRegistering>>
    /\ AuthFrame

\* Return of userService.getUserByEmail(pendingData.email): an existing user
\* is returned and the pending entry deleted; otherwise the call goes on to
\* create the user.
GetUserByEmailReturn(k) ==
    /\ callPc[k] = "lookup"
    /\ IF EmailTaken(callData[k].email)
       THEN /\ callPc' = [callPc EXCEPT ![k] = "existing"]
            /\ DeletePending(callToken[k])
            /\ Finally(k)
       ELSE /\ callPc' = [callPc EXCEPT ![k] = "creating"]
            /\ UNCHANGED <<pendingRegistrations, processingTokens>>
    /\ UNCHANGED <<issuedTokens, users, usedBy, callToken, callData,
                   preRegistering>>
    /\ AuthFrame

\* The branch of line 154: a vendor code is marked as used after the user was
\* created.
VendorPath(pendingData) ==
    pendingData.vendorCode # None /\ pendingData.type = "vendor"

\* The user document userService.createUser stores.  `token` and `vendorCode`
\* are not fields of the document (vendorCode is deleted from the data before
\* the call): they record which registration the user came from.
NewUser(k) ==
    [email |-> callData[k].email, type |-> callData[k].type,
     token |-> callToken[k], vendorCode |-> callData[k].vendorCode]

\* Return of userService.createUser.  The unique index on email refuses a
\* second user with the address; any other failure of the creation is the
\* input `created = FALSE`.  A failure leaves the pending entry and runs the
\* finally block.  On success a vendor registration awaits useCode, a customer
\* registration deletes the pending entry and returns.
CreateUserReturn(k, created) ==
    /\ callPc[k] = "creating"
    /\ IF EmailTaken(callData[k].email) \/ ~created
       THEN /\ callPc' = [callPc EXCEPT ![k] = "failed"]
            /\ Finally(k)
            /\ UNCHANGED <<users, pendingRegistrations>>
       ELSE /\ users' = users \cup {NewUser(k)}
            /\ IF VendorPath(callData[k])
               THEN /\ callPc' = [callPc EXCEPT ![k] = "usingCode"]
                    /\ UNCHANGED <<pendingRegistrations, processingTokens>>
               ELSE /\ callPc' = [callPc EXCEPT ![k] = "done"]
                    /\ DeletePending(callToken[k])
                    /\ Finally(k)
    /\ UNCHANGED <<issuedTokens, usedBy, callToken, callData, preRegistering>>
    /\ AuthFrame

\* VendorCode.useCode: findOneAndUpdate({code, isUsed: false}, {isUsed: true,
\* usedBy: userId}).  A code that is already used matches nothing and the
\* update returns null without an error.
useCode(code, userId) ==
    IF usedBy[code] = None THEN [usedBy EXCEPT ![code] = userId] ELSE usedBy

\* Return of VendorCode.useCode: its result is ignored, the pending entry is
\* deleted and the user returned.
UseCodeReturn(k) ==
    /\ callPc[k] = "usingCode"
    /\ usedBy' = useCode(callData[k].vendorCode, callData[k].email)
    /\ callPc' = [callPc EXCEPT ![k] = "done"]
    /\ DeletePending(callToken[k])
    /\ Finally(k)
    /\ UNCHANGED <<issuedTokens, users, callToken, callData, preRegistering>>
    /\ AuthFrame

NextAuth ==
    \/ \E t \in Tokens, email \in Emails, code \in VendorCodes \cup {None} :
           PreRegistrationStart(t, email, code)
    \/ \E t \in Tokens : sendPreRegistrationEmail(t)
    \/ \E k \in Calls, t \in Tokens, expired \in BOOLEAN :
           completeRegistration(k, t, expired)
    \/ \E k \in Calls : GetUserByEmailReturn(k)
    \/ \E k \in Calls, created \in BOOLEAN : CreateUserReturn(k, created)
    \/ \E k \in Calls : UseCodeReturn(k)

SpecAuth == Init /\ [][NextAuth]_vars

\* The users created for a verification token.
UsersOfToken(t) == {u \in users : u.token = t}

\* C29: for any interleaving of completeRegistration calls with one token, at
\* most one user is created for the token; the in-progress marker of a token
\* is set exactly while a call that set it is running, so it is cleared when
\* that call finishes; and a call arriving while the marker is set is rejected
\* and creates no user.
C29_OneRegistrationPerToken ==
    /\ [](\A t \in Tokens :
            /\ Cardinality(UsersOfToken(t)) <= 1
            /\ t \in processingTokens <=>
                   \E k \in Calls : InProgress(k) /\ callToken[k] = t
            /\ Cardinality({k \in Calls : InProgress(k) /\ callToken[k] = t})
                   <= 1)
    /\ [][\A k \in Calls, t \in Tokens :
              (/\ callPc[k] = "idle"
               /\ callPc'[k] # "idle"
               /\ callToken'[k] = t
               /\ t \in processingTokens)
              => /\ callPc'[k] = "rejected"
                 /\ users' = users
                 /\ processingTokens' = processingTokens]_vars

\* A call was rejected for a token whose registration went on to create the
\* one user of the token, and the marker is cleared again.
C29_Witness ==
    \E k \in Calls :
        /\ callPc[k] = "rejected"
        /\ Cardinality(UsersOfToken(callToken[k])) = 1
        /\ callToken[k] \notin processingTokens
        /\ \E j \in Calls : callPc[j] = "done" /\ callToken[j] = callToken[k]

\* The vendors registered with a code.
VendorsOfCode(code) ==
    {u \in users : u.type = "vendor" /\ u.vendorCode = code}

\* C30: a vendor code is single-use: at most one user of type vendor is
\* created with it, and once the creating call has run useCode that user is
\* the one recorded in the code's usedBy.
C30_VendorCodeSingleUse ==
    \A code \in VendorCodes :
        /\ Cardinality(VendorsOfCode(code)) <= 1
        /\ (\A k \in Calls : callPc[k] # "usingCode") =>
               \A u \in VendorsOfCode(code) : usedBy[code] = u.email

====
